---- MODULE Spec2Model ----
(***************************************************************************)
(* The guided-session state machine of MasterEverything (src/App.tsx) and  *)
(* the two oracle clients it awaits (src/services/geminiService.ts).       *)
(*                                                                         *)
(* One action models one event handler or one asynchronous continuation,   *)
(* together with the re-render React performs after it.  Handlers invoked  *)
(* by a user event read the state of the latest render; the interval and   *)
(* timeout callbacks read the values their closure captured when the       *)
(* handler that created them ran.                                          *)
(***************************************************************************)
EXTENDS Integers, Sequences, FiniteSets, TLC

VARIABLES
    state,                 \* useState<AppState>                 App.tsx:8
    mode,                  \* useState<AppMode>                  App.tsx:9
    wideImage,             \* context image or NULL              App.tsx:10
    macroImage,            \* detail image or NULL               App.tsx:11
    isCapturing,           \* capture requested from CameraView  App.tsx:12
    analysis,              \* the installed plan or NoAnalysis   App.tsx:13
    currentStepIdx,        \*                                    App.tsx:14
    isBusy,                \*                                    App.tsx:15
    voiceDescription,      \* the free-text note                 App.tsx:16
    verificationFeedback,  \* pending feedback or NoFeedback     App.tsx:17
    overrideHeld,          \*                                    App.tsx:20
    overrideProgress,      \* percent, 0..100                    App.tsx:21
    progressInterval,      \* the ref: an interval id, 0 = null  App.tsx:23
    intervals,             \* the window's setInterval table
    timeouts,              \* pending setTimeout callbacks of startGuidance
    inflight,              \* oracle requests awaiting their continuation
    spoken,                \* the step whose prompt the last handler sent to
                           \* playInstructionAudio, -1 = none
    speaking,              \* a call of playInstructionAudio has not settled
    mounted,               \* FALSE once a render has thrown (React unmounts the tree)
    lastEvent,             \* history: the handler or continuation that ran last
    firedTimer,            \* history: the timer whose callback ran proceedNext
                           \* in the last step, 0 = none
    sampled,               \* history: Date.now() - startTime seen by the interval
                           \* callback that ran last, 0 = none
    feedbackStep,          \* history: the step whose verification produced
                           \* verificationFeedback, -1 = none
    captured               \* history: the data the last step passed to
                           \* handleCapture, NULL = none

vars == <<state, mode, wideImage, macroImage, isCapturing, analysis,
          currentStepIdx, isBusy, voiceDescription, verificationFeedback,
          overrideHeld, overrideProgress, progressInterval, intervals,
          timeouts, inflight, spoken, speaking, mounted, lastEvent,
          firedTimer,
          sampled, feedbackStep, captured>>

(***************************************************************************)
(* Bounds of the model.                                                    *)
(***************************************************************************)
MaxSteps == 2       \* longest plan the analysis oracle returns
MaxTimers == 2      \* interval timers alive at once
MaxTimeouts == 1    \* startGuidance timeouts pending at once

(***************************************************************************)
(* Program constants.                                                      *)
(***************************************************************************)
duration == 1500
SampleInterval == 16

NULL == "null"
\* the modes the HOME view offers (App.tsx:153-156, 182)
Modes == {"First Aid", "Robotics & Electronics", "Mechanical & Automotive",
          "Software Engineering", "Workshop & Trades"}
\* the mode does not steer the session: Spec selects this one
SessionModes == {"First Aid"}
\* what canvas.toDataURL(...).split(',')[1] can deliver; "" is what an
\* empty (0 x 0) canvas gives
Images == {"", "imgA"}

\* JavaScript truthiness of a string | null
Truthy(s) == s /= NULL /\ s /= ""

Min(a, b) == IF a <= b THEN a ELSE b

(***************************************************************************)
(* AnalysisResult values.  len is steps.length; hasSteps is FALSE for an   *)
(* object without a steps member.  category, severity and reasoning are    *)
(* only displayed (App.tsx:282-285) and are left out.                      *)
(***************************************************************************)
NoAnalysis == [present |-> FALSE, hasSteps |-> FALSE, len |-> 0]
EmptyObject == [present |-> TRUE, hasSteps |-> FALSE, len |-> 0]
Plans == [present : {TRUE}, hasSteps : {TRUE}, len : 0..MaxSteps]

NoFeedback == [present |-> FALSE, success |-> "undefined", fallback |-> FALSE]

(***************************************************************************)
(* What ai.models.generateContent can do with a request.                   *)
(*   throw   : the call rejects (transport error)                          *)
(*   garbage : response.text is not JSON                                   *)
(*   empty   : response.text is empty or undefined                         *)
(*   json    : response.text is JSON of the given value                    *)
(***************************************************************************)
NoReply == [outcome |-> "none", plan |-> NoAnalysis, success |-> "undefined"]
NonJson == {[outcome |-> o, plan |-> NoAnalysis, success |-> "undefined"] :
                o \in {"throw", "garbage", "empty"}}
AnalysisReplies ==
    NonJson \cup {[outcome |-> "json", plan |-> p, success |-> "undefined"] : p \in Plans}
VerifyReplies ==
    NonJson \cup {[outcome |-> "json", plan |-> NoAnalysis, success |-> s] :
                      s \in {"true", "false"}}

\* geminiService.ts:8-80.  The await of generateContent is outside the try.
analyzeSituation(reply) ==
    CASE reply.outcome = "throw"   -> [threw |-> TRUE, value |-> NoAnalysis]
      [] reply.outcome = "garbage" -> [threw |-> TRUE, value |-> NoAnalysis]
      [] reply.outcome = "empty"   -> [threw |-> FALSE, value |-> EmptyObject]
      [] OTHER                     -> [threw |-> FALSE, value |-> reply.plan]

\* geminiService.ts:82-104.  The await of generateContent is outside the try.
verifyStep(reply) ==
    CASE reply.outcome = "throw"   -> [threw |-> TRUE, value |-> NoFeedback]
      [] reply.outcome = "garbage" ->
            [threw |-> FALSE,
             value |-> [present |-> TRUE, success |-> "true", fallback |-> TRUE]]
      [] reply.outcome = "empty"   ->
            [threw |-> FALSE,
             value |-> [present |-> TRUE, success |-> "undefined", fallback |-> FALSE]]
      [] OTHER                     ->
            [threw |-> FALSE,
             value |-> [present |-> TRUE, success |-> reply.success, fallback |-> FALSE]]

(***************************************************************************)
(* Rendering.                                                              *)
(***************************************************************************)
\* analysis.steps[currentStepIdx] can be read
StepExists(an, idx) == an.present /\ an.hasSteps /\ idx >= 0 /\ idx < an.len

\* The GUIDANCE view reads analysis.steps.length (App.tsx:125, 323) and
\* analysis.steps[currentStepIdx].materials (App.tsx:331): a TypeError when
\* the step does not exist.  No other view reads the steps.
RenderThrows(st, an, idx) == st = "GUIDANCE" /\ an.present /\ ~StepExists(an, idx)

\* The feedback card covers the whole screen (fixed inset-0 z-[100]).
OverlayShown == state = "STEP_VALIDATION" /\ verificationFeedback.present

\* renderHeader is part of the view: its close button is reachable
HeaderShown ==
    \/ state \in {"INITIAL_CAPTURE", "CAPTURE_COMPLETE"}
    \/ state = "STEP_VALIDATION" /\ ~OverlayShown
    \/ state \in {"ANALYSIS_COMPLETE", "GUIDANCE"} /\ analysis.present

\* The GUIDANCE view, which holds the override button and "Snap to Verify"
GuidanceShown == state = "GUIDANCE" /\ analysis.present

\* faulty variant: the capture button without its disabled attribute
CaptureEnabled_Always == TRUE

\* The capture button: disabled={isBusy}
CaptureEnabled == ~isBusy

CaptureShown ==
    /\ state \in {"INITIAL_CAPTURE", "STEP_VALIDATION"}
    /\ ~OverlayShown

(***************************************************************************)
(* The interval table.  A slot holds a timer created by                    *)
(* handleOverrideStart: the time it has observed, the values its callback  *)
(* closed over (currentStepIdx and analysis of the render in which the     *)
(* pointer went down, read through proceedNext).                           *)
(***************************************************************************)
TimerIds == 1..MaxTimers
NoTimer == [live |-> FALSE, elapsed |-> 0, idx |-> 0, an |-> NoAnalysis]
LiveTimers == {t \in TimerIds : intervals[t].live}

\* window.clearInterval(id); clearing an id that is not live does nothing
clearInterval(tab, id) ==
    IF id \in TimerIds THEN [tab EXCEPT ![id] = NoTimer] ELSE tab

\* The values of Date.now() - startTime a callback observes: the last
\* multiple of the interval below the duration and the first one above it.
SampleTimes == {93 * SampleInterval, 94 * SampleInterval}
LastSample == 94 * SampleInterval

\* Math.min((elapsed / duration) * 100, 100), in whole percent
Progress(elapsed) == Min((elapsed * 100) \div duration, 100)

(***************************************************************************)
(* proceedNext (App.tsx:76-86) as a function of the currentStepIdx and     *)
(* analysis it reads and of the session it updates.                        *)
(***************************************************************************)
Session ==
    [state |-> state, idx |-> currentStepIdx, feedback |-> verificationFeedback,
     spoken |-> -1, threw |-> FALSE]

proceedNext(idx, an, cur) ==
    IF ~(an.present /\ an.hasSteps)
    THEN [cur EXCEPT !.threw = TRUE]          \* analysis!.steps.length throws
    ELSE IF idx < an.len - 1
    THEN [state |-> "GUIDANCE", idx |-> idx + 1, feedback |-> NoFeedback,
          spoken |-> idx + 1, threw |-> FALSE]
    ELSE [cur EXCEPT !.state = "COMPLETED"]

\* playInstructionAudio(steps[step].audioPrompt) is called and not awaited;
\* step = -1: no call
Speak(step) ==
    /\ spoken' = step
    /\ speaking' = (speaking \/ step >= 0)

\* the session variables after a call of proceedNext, and the re-render
Install(new) ==
    /\ state' = new.state
    /\ currentStepIdx' = new.idx
    /\ verificationFeedback' = new.feedback
    /\ feedbackStep' = IF new.feedback.present THEN feedbackStep ELSE -1
    /\ Speak(new.spoken)

Rerender == mounted' = ~RenderThrows(state', analysis', currentStepIdx')

(***************************************************************************)
(* A settled promise resumes the function that awaits it in a microtask,   *)
(* before the event loop takes the next task: no user event and no timer   *)
(* callback runs between the end of an oracle call and the continuation of *)
(* analyzeSituation / verifyStep and of the handler awaiting them.         *)
(***************************************************************************)
EventLoopIdle == \A i \in 1..Len(inflight) : inflight[i].reply = NoReply

\* a task can start: the tree is mounted and no continuation is due
Ready == mounted /\ EventLoopIdle

(***************************************************************************)
(* Initial state: the useState initialisers.                               *)
(***************************************************************************)
Init ==
    /\ state = "HOME"
    /\ mode = "First Aid"
    /\ wideImage = NULL
    /\ macroImage = NULL
    /\ isCapturing = FALSE
    /\ analysis = NoAnalysis
    /\ currentStepIdx = 0
    /\ isBusy = FALSE
    /\ voiceDescription = NULL
    /\ verificationFeedback = NoFeedback
    /\ overrideHeld = FALSE
    /\ overrideProgress = 0
    /\ progressInterval = 0
    /\ intervals = [t \in TimerIds |-> NoTimer]
    /\ timeouts = <<>>
    /\ inflight = <<>>
    /\ spoken = -1
    /\ speaking = FALSE
    /\ mounted = TRUE
    /\ lastEvent = "init"
    /\ firedTimer = 0
    /\ sampled = 0
    /\ feedbackStep = -1
    /\ captured = NULL

(***************************************************************************)
(* Setup: mode selection, the two captures, retakes.                       *)
(***************************************************************************)
\* faulty variant: startAssessment without setMacroImage(null)
startAssessment_KeepsDetail(selectedMode) ==
    /\ Ready /\ state = "HOME"
    /\ mode' = selectedMode
    /\ wideImage' = NULL
    /\ voiceDescription' = NULL
    /\ state' = "INITIAL_CAPTURE"
    /\ lastEvent' = "startAssessment"
    /\ firedTimer' = 0
    /\ sampled' = 0
    /\ captured' = NULL
    /\ UNCHANGED <<macroImage, isCapturing, analysis, currentStepIdx, isBusy,
                   verificationFeedback, feedbackStep, overrideHeld, overrideProgress,
                   progressInterval, intervals, timeouts, inflight>>
    /\ Speak(-1)
    /\ Rerender

\* faulty variant: startAssessment without setWideImage(null)
startAssessment_KeepsContext(selectedMode) ==
    /\ Ready /\ state = "HOME"
    /\ mode' = selectedMode
    /\ macroImage' = NULL
    /\ voiceDescription' = NULL
    /\ state' = "INITIAL_CAPTURE"
    /\ lastEvent' = "startAssessment"
    /\ firedTimer' = 0
    /\ sampled' = 0
    /\ captured' = NULL
    /\ UNCHANGED <<wideImage, isCapturing, analysis, currentStepIdx, isBusy,
                   verificationFeedback, feedbackStep, overrideHeld, overrideProgress,
                   progressInterval, intervals, timeouts, inflight>>
    /\ Speak(-1)
    /\ Rerender

\* App.tsx:25-31, from the mode buttons of the HOME view
startAssessment(selectedMode) ==
    /\ Ready /\ state = "HOME"
    /\ mode' = selectedMode
    /\ wideImage' = NULL
    /\ macroImage' = NULL
    /\ voiceDescription' = NULL
    /\ state' = "INITIAL_CAPTURE"
    /\ lastEvent' = "startAssessment"
    /\ firedTimer' = 0
    /\ sampled' = 0
    /\ captured' = NULL
    /\ UNCHANGED <<isCapturing, analysis, currentStepIdx, isBusy,
                   verificationFeedback, feedbackStep, overrideHeld, overrideProgress,
                   progressInterval, intervals, timeouts, inflight>>
    /\ Speak(-1)
    /\ Rerender

\* The capture button (App.tsx:213-220) sets isCapturing; CameraView's effect
\* (geminiService.ts:188-199) takes the frame and calls handleCapture
\* (App.tsx:33-48), which runs up to its await.
handleCapture(data) ==
    /\ Ready /\ CaptureShown /\ CaptureEnabled
    /\ isCapturing' = FALSE
    /\ IF state = "INITIAL_CAPTURE"
       THEN /\ IF ~Truthy(wideImage)
               THEN /\ wideImage' = data
                    /\ UNCHANGED <<macroImage, state>>
               ELSE /\ macroImage' = data
                    /\ state' = "CAPTURE_COMPLETE"
                    /\ UNCHANGED wideImage
            /\ UNCHANGED <<isBusy, inflight>>
       ELSE \* STEP_VALIDATION
            /\ isBusy' = TRUE
            /\ inflight' =
                 IF StepExists(analysis, currentStepIdx)
                 THEN Append(inflight,
                             [kind |-> "verify", step |-> currentStepIdx,
                              wide |-> NULL, macro |-> NULL, reply |-> NoReply])
                 ELSE inflight    \* reading .instruction throws first
            /\ UNCHANGED <<wideImage, macroImage, state>>
    /\ lastEvent' = "handleCapture"
    /\ firedTimer' = 0
    /\ sampled' = 0
    /\ captured' = data
    /\ UNCHANGED <<mode, analysis, currentStepIdx, voiceDescription,
                   verificationFeedback, feedbackStep, overrideHeld, overrideProgress,
                   progressInterval, intervals, timeouts>>
    /\ Speak(-1)
    /\ Rerender

\* faulty variant: retaking the context image also drops the detail image
retakeContext_ClearsBoth ==
    /\ Ready /\ state = "CAPTURE_COMPLETE"
    /\ wideImage' = NULL
    /\ macroImage' = NULL
    /\ state' = "INITIAL_CAPTURE"
    /\ lastEvent' = "retakeContext"
    /\ firedTimer' = 0
    /\ sampled' = 0
    /\ captured' = NULL
    /\ UNCHANGED <<mode, isCapturing, analysis, currentStepIdx,
                   isBusy, voiceDescription, verificationFeedback, feedbackStep, overrideHeld,
                   overrideProgress, progressInterval, intervals, timeouts,
                   inflight>>
    /\ Speak(-1)
    /\ Rerender

\* App.tsx:235
retakeContext ==
    /\ Ready /\ state = "CAPTURE_COMPLETE"
    /\ wideImage' = NULL
    /\ state' = "INITIAL_CAPTURE"
    /\ lastEvent' = "retakeContext"
    /\ firedTimer' = 0
    /\ sampled' = 0
    /\ captured' = NULL
    /\ UNCHANGED <<mode, macroImage, isCapturing, analysis, currentStepIdx,
                   isBusy, voiceDescription, verificationFeedback, feedbackStep, overrideHeld,
                   overrideProgress, progressInterval, intervals, timeouts,
                   inflight>>
    /\ Speak(-1)
    /\ Rerender

\* App.tsx:242
retakeDetail ==
    /\ Ready /\ state = "CAPTURE_COMPLETE"
    /\ macroImage' = NULL
    /\ state' = "INITIAL_CAPTURE"
    /\ lastEvent' = "retakeDetail"
    /\ firedTimer' = 0
    /\ sampled' = 0
    /\ captured' = NULL
    /\ UNCHANGED <<mode, wideImage, isCapturing, analysis, currentStepIdx,
                   isBusy, voiceDescription, verificationFeedback, feedbackStep, overrideHeld,
                   overrideProgress, progressInterval, intervals, timeouts,
                   inflight>>
    /\ Speak(-1)
    /\ Rerender

(***************************************************************************)
(* The oracle.                                                             *)
(***************************************************************************)
RemoveAt(q, i) == [j \in 1..(Len(q) - 1) |-> IF j < i THEN q[j] ELSE q[j + 1]]

\* generateContent settles: the awaiting continuation becomes runnable
oracleResponds(i, reply) ==
    /\ mounted
    /\ i \in 1..Len(inflight)
    /\ inflight[i].reply = NoReply
    /\ reply \in (IF inflight[i].kind = "analysis" THEN AnalysisReplies ELSE VerifyReplies)
    /\ inflight' = [inflight EXCEPT ![i].reply = reply]
    /\ lastEvent' = "oracleResponds"
    /\ firedTimer' = 0
    /\ sampled' = 0
    /\ captured' = NULL
    /\ UNCHANGED <<state, mode, wideImage, macroImage, isCapturing, analysis,
                   currentStepIdx, isBusy, voiceDescription, verificationFeedback, feedbackStep,
                   overrideHeld, overrideProgress, progressInterval, intervals,
                   timeouts, mounted>>
    /\ Speak(-1)

\* App.tsx:50-54, the "Analyze Situation" button of the CAPTURE_COMPLETE view
triggerAnalysis ==
    /\ Ready /\ state = "CAPTURE_COMPLETE"
    /\ state' = "ANALYZING"
    /\ isBusy' = TRUE
    /\ inflight' = Append(inflight,
                          [kind |-> "analysis", step |-> 0, wide |-> wideImage,
                           macro |-> macroImage, reply |-> NoReply])
    /\ lastEvent' = "triggerAnalysis"
    /\ firedTimer' = 0
    /\ sampled' = 0
    /\ captured' = NULL
    /\ UNCHANGED <<mode, wideImage, macroImage, isCapturing, analysis,
                   currentStepIdx, voiceDescription, verificationFeedback, feedbackStep,
                   overrideHeld, overrideProgress, progressInterval, intervals,
                   timeouts>>
    /\ Speak(-1)
    /\ Rerender

\* App.tsx:53-62 after the await: try / catch / finally
\* faulty variant: the catch block escalates instead of returning to HOME
AnalysisCatchState_Escalates == "ESCALATION"

\* the state the catch block sets
AnalysisCatchState == "HOME"
\* faulty variant: setIsBusy(false) at the end of the try block, no finally
AnalysisFinallyBusy_TryOnly(threw) == IF threw THEN isBusy ELSE FALSE

\* isBusy after the finally block (App.tsx:60-62), whether or not the await threw
AnalysisFinallyBusy(threw) == FALSE

\* faulty variant: the catch block also drops the installed plan
triggerAnalysisResume_CatchClearsPlan(i) ==
    /\ mounted
    /\ i \in 1..Len(inflight)
    /\ inflight[i].kind = "analysis"
    /\ inflight[i].reply /= NoReply
    /\ LET res == analyzeSituation(inflight[i].reply) IN
         IF res.threw
         THEN /\ state' = AnalysisCatchState
              /\ lastEvent' = "triggerAnalysisCatch"
              /\ analysis' = NoAnalysis
         ELSE /\ analysis' = res.value
              /\ state' = "ANALYSIS_COMPLETE"
              /\ lastEvent' = "triggerAnalysisResume"
    /\ isBusy' = AnalysisFinallyBusy(analyzeSituation(inflight[i].reply).threw)
    /\ inflight' = RemoveAt(inflight, i)
    /\ firedTimer' = 0
    /\ sampled' = 0
    /\ captured' = NULL
    /\ UNCHANGED <<mode, wideImage, macroImage, isCapturing, currentStepIdx,
                   voiceDescription, verificationFeedback, feedbackStep, overrideHeld,
                   overrideProgress, progressInterval, intervals, timeouts>>
    /\ Speak(-1)
    /\ Rerender

triggerAnalysisResume(i) ==
    /\ mounted
    /\ i \in 1..Len(inflight)
    /\ inflight[i].kind = "analysis"
    /\ inflight[i].reply /= NoReply
    /\ LET res == analyzeSituation(inflight[i].reply) IN
         IF res.threw
         THEN /\ state' = AnalysisCatchState
              /\ lastEvent' = "triggerAnalysisCatch"
              /\ UNCHANGED analysis
         ELSE /\ analysis' = res.value
              /\ state' = "ANALYSIS_COMPLETE"
              /\ lastEvent' = "triggerAnalysisResume"
    /\ isBusy' = AnalysisFinallyBusy(analyzeSituation(inflight[i].reply).threw)
    /\ inflight' = RemoveAt(inflight, i)
    /\ firedTimer' = 0
    /\ sampled' = 0
    /\ captured' = NULL
    /\ UNCHANGED <<mode, wideImage, macroImage, isCapturing, currentStepIdx,
                   voiceDescription, verificationFeedback, feedbackStep, overrideHeld,
                   overrideProgress, progressInterval, intervals, timeouts>>
    /\ Speak(-1)
    /\ Rerender

\* App.tsx:44-46 after the await; a rejected verifyStep ends handleCapture there
handleCaptureResume(i) ==
    /\ mounted
    /\ i \in 1..Len(inflight)
    /\ inflight[i].kind = "verify"
    /\ inflight[i].reply /= NoReply
    /\ LET res == verifyStep(inflight[i].reply) IN
         IF res.threw
         THEN /\ lastEvent' = "handleCaptureReject"
              /\ UNCHANGED <<verificationFeedback, feedbackStep, isBusy>>
         ELSE /\ verificationFeedback' = res.value
              /\ feedbackStep' = inflight[i].step
              /\ isBusy' = FALSE
              /\ lastEvent' = "handleCaptureResume"
    /\ inflight' = RemoveAt(inflight, i)
    /\ firedTimer' = 0
    /\ sampled' = 0
    /\ captured' = NULL
    /\ UNCHANGED <<state, mode, wideImage, macroImage, isCapturing, analysis,
                   currentStepIdx, voiceDescription, overrideHeld,
                   overrideProgress, progressInterval, intervals, timeouts>>
    /\ Speak(-1)
    /\ Rerender

(***************************************************************************)
(* Guidance.                                                               *)
(***************************************************************************)
\* App.tsx:65-67, the "Deploy Instructions" button (App.tsx:275, 300)
startGuidance ==
    /\ Ready /\ state = "ANALYSIS_COMPLETE" /\ analysis.present
    /\ Len(timeouts) < MaxTimeouts
    /\ state' = "PREPARING_INSTRUCTIONS"
    /\ timeouts' = Append(timeouts, analysis)
    /\ lastEvent' = "startGuidance"
    /\ firedTimer' = 0
    /\ sampled' = 0
    /\ captured' = NULL
    /\ UNCHANGED <<mode, wideImage, macroImage, isCapturing, analysis,
                   currentStepIdx, isBusy, voiceDescription, verificationFeedback, feedbackStep,
                   overrideHeld, overrideProgress, progressInterval, intervals,
                   inflight>>
    /\ Speak(-1)
    /\ Rerender

\* faulty variant: the timeout callback without setCurrentStepIdx(0)
guidanceTimeout_KeepsIdx ==
    /\ Ready
    /\ Len(timeouts) > 0
    /\ state' = "GUIDANCE"
    /\ Speak(IF StepExists(Head(timeouts), 0) THEN 0 ELSE -1)
    /\ timeouts' = Tail(timeouts)
    /\ lastEvent' = "guidanceTimeout"
    /\ firedTimer' = 0
    /\ sampled' = 0
    /\ captured' = NULL
    /\ UNCHANGED <<mode, wideImage, macroImage, isCapturing, analysis, isBusy,
                   voiceDescription, verificationFeedback, feedbackStep, overrideHeld,
                   overrideProgress, progressInterval, intervals, inflight,
                   currentStepIdx>>
    /\ Rerender

\* App.tsx:67-73, the timeout callback; analysis is the closure's
guidanceTimeout ==
    /\ Ready
    /\ Len(timeouts) > 0
    /\ state' = "GUIDANCE"
    /\ currentStepIdx' = 0
    /\ Speak(IF StepExists(Head(timeouts), 0) THEN 0 ELSE -1)
    /\ timeouts' = Tail(timeouts)
    /\ lastEvent' = "guidanceTimeout"
    /\ firedTimer' = 0
    /\ sampled' = 0
    /\ captured' = NULL
    /\ UNCHANGED <<mode, wideImage, macroImage, isCapturing, analysis, isBusy,
                   voiceDescription, verificationFeedback, feedbackStep, overrideHeld,
                   overrideProgress, progressInterval, intervals, inflight>>
    /\ Rerender

\* App.tsx:424, "Snap to Verify Completion"
requestVerification ==
    /\ Ready /\ GuidanceShown
    /\ state' = "STEP_VALIDATION"
    /\ lastEvent' = "requestVerification"
    /\ firedTimer' = 0
    /\ sampled' = 0
    /\ captured' = NULL
    /\ UNCHANGED <<mode, wideImage, macroImage, isCapturing, analysis,
                   currentStepIdx, isBusy, voiceDescription, verificationFeedback, feedbackStep,
                   overrideHeld, overrideProgress, progressInterval, intervals,
                   timeouts, inflight>>
    /\ Speak(-1)
    /\ Rerender

\* faulty variant: "Retry Capture" also leaves the capture view
retryCapture_ToGuidance ==
    /\ Ready /\ OverlayShown
    /\ verificationFeedback.success /= "true"
    /\ verificationFeedback' = NoFeedback
    /\ feedbackStep' = -1
    /\ state' = "GUIDANCE"
    /\ lastEvent' = "retryCapture"
    /\ firedTimer' = 0
    /\ sampled' = 0
    /\ captured' = NULL
    /\ UNCHANGED <<mode, wideImage, macroImage, isCapturing, analysis,
                   currentStepIdx, isBusy, voiceDescription, overrideHeld,
                   overrideProgress, progressInterval, intervals, timeouts,
                   inflight>>
    /\ Speak(-1)
    /\ Rerender

\* App.tsx:451-452, "Retry Capture": shown when the feedback's success is falsy
retryCapture ==
    /\ Ready /\ OverlayShown
    /\ verificationFeedback.success /= "true"
    /\ verificationFeedback' = NoFeedback
    /\ feedbackStep' = -1
    /\ lastEvent' = "retryCapture"
    /\ firedTimer' = 0
    /\ sampled' = 0
    /\ captured' = NULL
    /\ UNCHANGED <<state, mode, wideImage, macroImage, isCapturing, analysis,
                   currentStepIdx, isBusy, voiceDescription, overrideHeld,
                   overrideProgress, progressInterval, intervals, timeouts,
                   inflight>>
    /\ Speak(-1)
    /\ Rerender

\* App.tsx:454, "Confirm & Proceed": shown with every feedback
confirmProceed ==
    /\ Ready /\ OverlayShown
    /\ Install(proceedNext(currentStepIdx, analysis, Session))
    /\ lastEvent' = "confirmProceed"
    /\ firedTimer' = 0
    /\ sampled' = 0
    /\ captured' = NULL
    /\ UNCHANGED <<mode, wideImage, macroImage, isCapturing, analysis, isBusy,
                   voiceDescription, overrideHeld, overrideProgress,
                   progressInterval, intervals, timeouts, inflight>>
    /\ Rerender

\* App.tsx:119, the header's close button
returnHome ==
    /\ Ready /\ HeaderShown
    /\ state' = "HOME"
    /\ lastEvent' = "returnHome"
    /\ firedTimer' = 0
    /\ sampled' = 0
    /\ captured' = NULL
    /\ UNCHANGED <<mode, wideImage, macroImage, isCapturing, analysis,
                   currentStepIdx, isBusy, voiceDescription, verificationFeedback, feedbackStep,
                   overrideHeld, overrideProgress, progressInterval, intervals,
                   timeouts, inflight>>
    /\ Speak(-1)
    /\ Rerender

\* App.tsx:484, "Finish Session"
finishSession ==
    /\ Ready /\ state = "COMPLETED"
    /\ state' = "HOME"
    /\ lastEvent' = "finishSession"
    /\ firedTimer' = 0
    /\ sampled' = 0
    /\ captured' = NULL
    /\ UNCHANGED <<mode, wideImage, macroImage, isCapturing, analysis,
                   currentStepIdx, isBusy, voiceDescription, verificationFeedback, feedbackStep,
                   overrideHeld, overrideProgress, progressInterval, intervals,
                   timeouts, inflight>>
    /\ Speak(-1)
    /\ Rerender

\* what the text-to-speech call can do: deliver audio, which is played, or
\* fail (the call rejects, or decoding throws), which the catch logs
SpeechOutcomes == {"played", "failed"}

\* faulty variant: a failed speech call sends the session to HOME
speechSettles_Surfaces(outcome) ==
    /\ Ready
    /\ speaking
    /\ speaking' = FALSE
    /\ spoken' = -1
    /\ state' = IF outcome = "failed" THEN "HOME" ELSE state
    /\ lastEvent' = IF outcome = "failed" THEN "speechFailed" ELSE "speechPlayed"
    /\ firedTimer' = 0
    /\ sampled' = 0
    /\ captured' = NULL
    /\ UNCHANGED <<mode, wideImage, macroImage, isCapturing, analysis,
                   currentStepIdx, isBusy, voiceDescription, verificationFeedback, feedbackStep,
                   overrideHeld, overrideProgress, progressInterval, intervals,
                   timeouts, inflight, mounted>>

\* geminiService.ts:106-140 after the await: the whole body is inside the try
\* and App.tsx does not await the call
speechSettles(outcome) ==
    /\ Ready
    /\ speaking
    /\ speaking' = FALSE
    /\ spoken' = -1
    /\ lastEvent' = IF outcome = "failed" THEN "speechFailed" ELSE "speechPlayed"
    /\ firedTimer' = 0
    /\ sampled' = 0
    /\ captured' = NULL
    /\ UNCHANGED <<state, mode, wideImage, macroImage, isCapturing, analysis,
                   currentStepIdx, isBusy, voiceDescription, verificationFeedback, feedbackStep,
                   overrideHeld, overrideProgress, progressInterval, intervals,
                   timeouts, inflight, mounted>>

(***************************************************************************)
(* The override hold.                                                      *)
(***************************************************************************)
\* the id window.setInterval hands out: a slot that is not live
FreeIds == TimerIds \ LiveTimers
NewId == CHOOSE t \in FreeIds : \A u \in FreeIds : t <= u

\* App.tsx:89-95 and 105, onPointerDown of the override button
handleOverrideStart ==
    /\ Ready /\ GuidanceShown
    /\ FreeIds /= {}
    /\ overrideHeld' = TRUE
    /\ overrideProgress' = 0
    /\ intervals' = [intervals EXCEPT ![NewId] =
                        [live |-> TRUE, elapsed |-> 0, idx |-> currentStepIdx,
                         an |-> analysis]]
    /\ progressInterval' = NewId
    /\ lastEvent' = "handleOverrideStart"
    /\ firedTimer' = 0
    /\ sampled' = 0
    /\ captured' = NULL
    /\ UNCHANGED <<state, mode, wideImage, macroImage, isCapturing, analysis,
                   currentStepIdx, isBusy, voiceDescription, verificationFeedback, feedbackStep,
                   timeouts, inflight>>
    /\ Speak(-1)
    /\ Rerender

\* what handleOverrideEnd leaves in the interval table (App.tsx:109-112)
EndIntervals == clearInterval(intervals, progressInterval)

\* App.tsx:108-115, onPointerUp and onPointerLeave of the override button
handleOverrideEnd ==
    /\ Ready /\ GuidanceShown
    /\ intervals' = EndIntervals
    /\ progressInterval' = 0
    /\ overrideHeld' = FALSE
    /\ overrideProgress' = 0
    /\ lastEvent' = "handleOverrideEnd"
    /\ firedTimer' = 0
    /\ sampled' = 0
    /\ captured' = NULL
    /\ UNCHANGED <<state, mode, wideImage, macroImage, isCapturing, analysis,
                   currentStepIdx, isBusy, voiceDescription, verificationFeedback, feedbackStep,
                   timeouts, inflight>>
    /\ Speak(-1)
    /\ Rerender

\* The sample a callback of timer t can observe next: later than its last
\* one by at least the interval (time past the last sample is not told
\* apart).  Timers of the same period run in the order they were created,
\* so a timer has not seen more time than one created before it.
NextSamples(t) ==
    {e \in SampleTimes :
        /\ \/ e >= intervals[t].elapsed + SampleInterval
           \/ e = LastSample /\ intervals[t].elapsed = LastSample
        /\ \A u \in LiveTimers : u < t => e <= intervals[u].elapsed}

\* faulty variant: the hold completes one percent early
HoldComplete_Early(progress) == progress >= 99

\* App.tsx:99: progress >= 100
HoldComplete(progress) == progress >= 100

\* App.tsx:95-105, one run of the interval callback of timer t, observing
\* Date.now() - startTime = e
intervalTick(t, e) ==
    /\ Ready
    /\ t \in LiveTimers
    /\ LET progress == Progress(e)
           ticked == [intervals EXCEPT ![t].elapsed = e]
       IN
         IF HoldComplete(progress)
         THEN LET new == proceedNext(intervals[t].idx, intervals[t].an, Session)
                  cleared == clearInterval(ticked, progressInterval)
              IN /\ intervals' = cleared
                 /\ firedTimer' = t
                 /\ Install(new)
                 /\ IF new.threw
                    THEN /\ overrideProgress' = progress
                         /\ UNCHANGED overrideHeld
                    ELSE /\ overrideHeld' = FALSE
                         /\ overrideProgress' = 0
                 /\ lastEvent' = "overrideComplete"
         ELSE /\ intervals' = ticked
              /\ overrideProgress' = progress
              /\ lastEvent' = "intervalTick"
              /\ firedTimer' = 0
              /\ Speak(-1)
              /\ UNCHANGED <<state, currentStepIdx, verificationFeedback, feedbackStep,
                             overrideHeld>>
    /\ sampled' = e
    /\ captured' = NULL
    /\ UNCHANGED <<mode, wideImage, macroImage, isCapturing, analysis, isBusy,
                   voiceDescription, progressInterval, timeouts, inflight>>
    /\ Rerender

(***************************************************************************)
(* The specification.                                                      *)
(***************************************************************************)
Next ==
    \/ \E m \in SessionModes : startAssessment(m)
    \/ \E data \in Images : handleCapture(data)
    \/ retakeContext
    \/ retakeDetail
    \/ triggerAnalysis
    \/ \E i \in 1..Len(inflight) : \E r \in AnalysisReplies \cup VerifyReplies :
          oracleResponds(i, r)
    \/ \E i \in 1..Len(inflight) : triggerAnalysisResume(i)
    \/ \E i \in 1..Len(inflight) : handleCaptureResume(i)
    \/ startGuidance
    \/ guidanceTimeout
    \/ requestVerification
    \/ retryCapture
    \/ confirmProceed
    \/ returnHome
    \/ finishSession
    \/ \E o \in SpeechOutcomes : speechSettles(o)
    \/ handleOverrideStart
    \/ handleOverrideEnd
    \/ \E t \in TimerIds : \E e \in NextSamples(t) : intervalTick(t, e)

Spec == Init /\ [][Next]_vars

\* The oracle call ends, with a result or an error, and the JavaScript event
\* loop runs the continuation that awaits it.
FairSpec ==
    /\ Spec
    /\ WF_vars(\E i \in 1..Len(inflight) :
                 \E r \in AnalysisReplies \cup VerifyReplies : oracleResponds(i, r))
    /\ WF_vars(\E i \in 1..Len(inflight) : triggerAnalysisResume(i))
    /\ WF_vars(\E i \in 1..Len(inflight) : handleCaptureResume(i))

TypeOK ==
    /\ state \in {"HOME", "INITIAL_CAPTURE", "CAPTURE_COMPLETE", "ANALYZING",
                  "ANALYSIS_COMPLETE", "PREPARING_INSTRUCTIONS", "GUIDANCE",
                  "STEP_VALIDATION", "COMPLETED"}
    /\ mode \in Modes
    /\ wideImage \in Images \cup {NULL}
    /\ macroImage \in Images \cup {NULL}
    /\ analysis \in Plans \cup {NoAnalysis, EmptyObject}
    /\ currentStepIdx \in 0..MaxSteps
    /\ isBusy \in BOOLEAN
    /\ speaking \in BOOLEAN
    /\ overrideProgress \in 0..100
    /\ progressInterval \in 0..MaxTimers
    /\ Len(timeouts) <= MaxTimeouts
    /\ sampled \in SampleTimes \cup {0}
    /\ feedbackStep \in -1..(MaxSteps - 1)
    /\ captured \in Images \cup {NULL}

(***************************************************************************)
(* Claims.                                                                 *)
(***************************************************************************)
Outstanding == Len(inflight)
Fallback == [present |-> TRUE, success |-> "true", fallback |-> TRUE]
SessionVars == <<state, currentStepIdx, analysis, verificationFeedback, isBusy>>

\* C1: isBusy is true exactly while an analysis or verification request is
\* outstanding, whatever the outcome of the request.
C1_BusyIffInFlight == isBusy <=> Outstanding > 0

\* C2: the continuation of every verification request installs a feedback,
\* clears isBusy and leaves the phase alone; when the oracle call threw or its
\* text was not JSON, the feedback is the fail-open fallback.
C2_VerifyAlwaysDecides ==
    [][\A i \in 1..Len(inflight) :
         (/\ inflight[i].kind = "verify"
          /\ inflight[i].reply /= NoReply
          /\ inflight' = RemoveAt(inflight, i))
         => /\ verificationFeedback'.present
            /\ ~isBusy'
            /\ state' = state
            /\ (inflight[i].reply.outcome \in {"throw", "garbage"}
                  => verificationFeedback' = Fallback)]_vars

\* C3: in GUIDANCE and STEP_VALIDATION a plan is installed and
\* 0 <= currentStepIdx < steps.length.
C3_StepIndexInRange ==
    state \in {"GUIDANCE", "STEP_VALIDATION"} => StepExists(analysis, currentStepIdx)

\* C4: when proceedNext runs, from "Confirm & Proceed" or from a completed
\* override hold, while the session is at its last step, the phase becomes
\* COMPLETED and currentStepIdx stays.
C4_LastStepCompletes ==
    [][(/\ lastEvent' \in {"confirmProceed", "overrideComplete"}
        /\ state \in {"GUIDANCE", "STEP_VALIDATION"}
        /\ StepExists(analysis, currentStepIdx)
        /\ currentStepIdx = analysis.len - 1)
       => (state' = "COMPLETED" /\ currentStepIdx' = currentStepIdx)]_vars

\* C5: when the analysis request fails (the call throws or its text is not
\* JSON) the phase becomes HOME, isBusy is false, the installed plan is the
\* one from before the request and no request is outstanding.
C5_AnalysisFailureToHome ==
    [][\A i \in 1..Len(inflight) :
         (/\ inflight[i].kind = "analysis"
          /\ inflight[i].reply.outcome \in {"throw", "garbage"}
          /\ inflight' = RemoveAt(inflight, i))
         => /\ state' = "HOME"
            /\ ~isBusy'
            /\ analysis' = analysis
            /\ inflight' = <<>>]_vars

\* C5 witness: a failed analysis has returned the session to HOME while the
\* plan of an earlier session is still the installed one.
C5_Witness ==
    /\ lastEvent = "triggerAnalysisCatch"
    /\ state = "HOME" /\ ~isBusy /\ analysis.present /\ inflight = <<>>

C7_PlanHasStep ==
    state = "ANALYSIS_COMPLETE" => (StepExists(analysis, 0) /\ analysis.len >= 1)

\* C8: a request is only ever issued while isBusy is false and no request is
\* outstanding, so at most one is outstanding at any time.
C8_OneRequestAtATime ==
    [][Outstanding' > Outstanding => (~isBusy /\ Outstanding = 0)]_vars

\* C8 witness: a verification request is outstanding after a manual return
\* to HOME and a new mode selection; the capture button is shown, disabled.
C8_Witness ==
    /\ state = "INITIAL_CAPTURE" /\ CaptureShown
    /\ isBusy /\ Outstanding = 1 /\ inflight[1].kind = "verify"

\* C9: a cancelled hold stops sampling, so that none of its ticks can call
\* proceedNext later, and the cancel leaves the session as it was.
C9_CancelStopsHold ==
    [][lastEvent' = "handleOverrideEnd"
         => (LiveTimers' = {} /\ SessionVars' = SessionVars)]_vars

\* C10: a hold calls proceedNext once: the callback that calls it belongs to
\* a timer that had not reached the full duration before.
C10_AdvanceOncePerHold ==
    [][lastEvent' = "overrideComplete"
         => intervals[firedTimer'].elapsed < duration]_vars

\* C11: overrideProgress stays within 0..100 and a sample taken while the
\* hold is active does not lower it; handleOverrideEnd and the completion of
\* a hold both leave overrideProgress = 0, overrideHeld false and no interval
\* sampling.
C11_ProgressMonotoneAndReset ==
    [][/\ overrideProgress' \in 0..100
       /\ (lastEvent' = "intervalTick" /\ overrideHeld)
             => overrideProgress' >= overrideProgress
       /\ lastEvent' \in {"handleOverrideEnd", "overrideComplete"}
             => (overrideProgress' = 0 /\ ~overrideHeld' /\ LiveTimers' = {})]_vars

\* C12: a completed override hold gives the phase and the currentStepIdx
\* that proceedNext gives for the currentStepIdx and the plan the session has
\* when the hold completes, as "Confirm & Proceed" does.
C12_SameAdvanceRoutine ==
    [][lastEvent' \in {"confirmProceed", "overrideComplete"}
         => LET new == proceedNext(currentStepIdx, analysis, Session)
            IN state' = new.state /\ currentStepIdx' = new.idx]_vars

\* C13: in CAPTURE_COMPLETE, "Retake" of the context image sets wideImage to
\* null and "Retake" of the detail image sets macroImage to null; the other
\* image, the mode and the note stay and the phase becomes INITIAL_CAPTURE.
C13_RetakeClearsOneSlot ==
    [][/\ lastEvent' = "retakeContext"
          => /\ state = "CAPTURE_COMPLETE" /\ state' = "INITIAL_CAPTURE"
             /\ wideImage' = NULL /\ macroImage' = macroImage
             /\ mode' = mode /\ voiceDescription' = voiceDescription
       /\ lastEvent' = "retakeDetail"
          => /\ state = "CAPTURE_COMPLETE" /\ state' = "INITIAL_CAPTURE"
             /\ macroImage' = NULL /\ wideImage' = wideImage
             /\ mode' = mode /\ voiceDescription' = voiceDescription]_vars

\* C13 witness: the context image has been retaken away and the detail image
\* is still stored.
C13_Witness ==
    /\ lastEvent = "retakeContext"
    /\ state = "INITIAL_CAPTURE"
    /\ wideImage = NULL /\ Truthy(macroImage)

\* C14: a run of the interval callback completes the hold exactly when the
\* time it observes has reached the duration, which with one sample every
\* SampleInterval is, for a hold's first completion, the first sample at or
\* past 1500; the completion issues
\* no oracle request, and a hold started on a one-step plan sets the phase
\* to COMPLETED.
C14_HoldCompletesAtDuration ==
    [][/\ lastEvent' \in {"intervalTick", "overrideComplete"}
          => /\ sampled' % SampleInterval = 0
             /\ (lastEvent' = "overrideComplete") <=> (sampled' >= duration)
       /\ lastEvent' = "overrideComplete"
          => /\ inflight' = inflight
             /\ intervals[firedTimer'].elapsed < duration
                  => sampled' - SampleInterval < duration
             /\ intervals[firedTimer'].an.len = 1 => state' = "COMPLETED"]_vars

\* C14 witness: a hold on a one-step plan has completed at the first sample
\* past the duration; no verification was requested or answered.
C14_Witness ==
    /\ lastEvent = "overrideComplete"
    /\ sampled = LastSample
    /\ analysis.len = 1 /\ state = "COMPLETED"
    /\ inflight = <<>> /\ ~verificationFeedback.present

\* C15: "Retry Capture" on a feedback whose success is not true clears the
\* feedback, stays in STEP_VALIDATION at the same step and uncovers the
\* capture view; a capture in STEP_VALIDATION issues a verification request
\* for the current step; "Confirm & Proceed" on a successful feedback at a
\* step that is not the last gives currentStepIdx + 1 and GUIDANCE.
C15_RetryThenVerify ==
    [][/\ lastEvent' = "retryCapture"
          => /\ state = "STEP_VALIDATION" /\ state' = "STEP_VALIDATION"
             /\ verificationFeedback' = NoFeedback
             /\ currentStepIdx' = currentStepIdx
             /\ CaptureShown'
       /\ (/\ lastEvent' = "handleCapture"
           /\ state = "STEP_VALIDATION"
           /\ StepExists(analysis, currentStepIdx))
          => /\ Len(inflight') = Len(inflight) + 1
             /\ inflight'[Len(inflight')].kind = "verify"
             /\ inflight'[Len(inflight')].step = currentStepIdx
             /\ state' = state /\ currentStepIdx' = currentStepIdx
       /\ (/\ lastEvent' = "confirmProceed"
           /\ verificationFeedback.success = "true"
           /\ StepExists(analysis, currentStepIdx)
           /\ currentStepIdx < analysis.len - 1)
          => (currentStepIdx' = currentStepIdx + 1 /\ state' = "GUIDANCE")]_vars

\* C15 witness: the failed verification of step 0 of a two-step plan has been
\* acknowledged with "Retry Capture".
C15_Witness ==
    /\ lastEvent = "retryCapture"
    /\ state = "STEP_VALIDATION" /\ currentStepIdx = 0 /\ analysis.len = 2
    /\ ~verificationFeedback.present
    /\ ~isBusy /\ inflight = <<>>

\* the verification requests that are outstanding
VerifyOutstanding == {i \in 1..Len(inflight) : inflight[i].kind = "verify"}

\* C16: no interval of an override hold is sampling while a verification
\* request is outstanding; no verification capture is taken while one is
\* sampling and no hold is started while a verification is outstanding.
C16_OverrideExcludesVerify ==
    [][/\ ~(LiveTimers' /= {} /\ VerifyOutstanding' /= {})
       /\ (lastEvent' = "handleCapture" /\ state = "STEP_VALIDATION")
             => LiveTimers = {}
       /\ lastEvent' = "handleOverrideStart" => VerifyOutstanding = {}]_vars

\* C17: while isBusy is true neither "Confirm & Proceed" nor a completed
\* override hold changes currentStepIdx or the phase.
C17_NoAdvanceWhileBusy ==
    [][(isBusy /\ lastEvent' \in {"confirmProceed", "overrideComplete"})
         => (currentStepIdx' = currentStepIdx /\ state' = state)]_vars

\* C18: after "Retry Capture" and after every run of proceedNext, to GUIDANCE
\* or to COMPLETED, no verification feedback is stored, and STEP_VALIDATION
\* is entered without one.
C18_FeedbackClearedOnAdvance ==
    [][/\ lastEvent' \in {"retryCapture", "confirmProceed", "overrideComplete"}
          => ~verificationFeedback'.present
       /\ lastEvent' = "requestVerification"
          => ~verificationFeedback'.present]_vars

\* C19: in the HOME state reached by "Finish Session" or by the header's
\* close button there is no plan, no image and no feedback, currentStepIdx
\* is 0 and isBusy is false.
C19_HomeResetsSession ==
    (state = "HOME" /\ lastEvent \in {"finishSession", "returnHome"})
       => /\ analysis = NoAnalysis
          /\ wideImage = NULL /\ macroImage = NULL
          /\ verificationFeedback = NoFeedback
          /\ currentStepIdx = 0
          /\ ~isBusy

\* C20: a capture that produced no image (the camera had no frame: the data
\* is the empty string) leaves the phase, the stored images, the plan, the
\* step, the feedback and isBusy as they were and issues no request, and the
\* capture button can be pressed again.
C20_FailedCaptureKeepsPhase ==
    [][(lastEvent' = "handleCapture" /\ captured' = "")
         => /\ state' = state
            /\ Truthy(wideImage') = Truthy(wideImage)
            /\ Truthy(macroImage') = Truthy(macroImage)
            /\ <<analysis', currentStepIdx', verificationFeedback', isBusy'>>
                 = <<analysis, currentStepIdx, verificationFeedback, isBusy>>
            /\ inflight' = inflight
            /\ CaptureShown' /\ CaptureEnabled']_vars

\* C21: the continuation of a speech call, played or failed, leaves the
\* phase, currentStepIdx, the feedback and isBusy as they are; and while a
\* speech call has not settled every button is available exactly when its
\* view shows it.
C21_SpeechFireAndForget ==
    [][/\ lastEvent' \in {"speechFailed", "speechPlayed"}
          => <<state', currentStepIdx', verificationFeedback', isBusy'>>
               = <<state, currentStepIdx, verificationFeedback, isBusy>>
       /\ (speaking /\ Ready)
          => /\ (ENABLED requestVerification) <=> GuidanceShown
             /\ (ENABLED handleOverrideEnd) <=> GuidanceShown
             /\ (ENABLED confirmProceed) <=> OverlayShown
             /\ (ENABLED returnHome) <=> HeaderShown
             /\ (ENABLED finishSession) <=> (state = "COMPLETED")
             /\ (ENABLED handleCapture("imgA")) <=> (CaptureShown /\ CaptureEnabled)
             /\ (ENABLED startAssessment("First Aid")) <=> (state = "HOME")]_vars

\* C21 witness: the speech call for step 1 has failed; the session is in
\* GUIDANCE at step 1.
C21_Witness ==
    /\ lastEvent = "speechFailed"
    /\ state = "GUIDANCE" /\ currentStepIdx = 1
    /\ ~speaking

\* C22: at HOME the phase changes only when a mode is selected, and neither
\* the continuation of a verification request nor a callback of an override
\* interval changes the phase, currentStepIdx or the feedback.
C22_HomeIsAbandoned ==
    [][state = "HOME"
         => /\ (state' /= "HOME" => lastEvent' = "startAssessment")
            /\ lastEvent' \in {"handleCaptureResume", "handleCaptureReject",
                               "intervalTick", "overrideComplete"}
                 => <<state', currentStepIdx', verificationFeedback'>>
                      = <<state, currentStepIdx, verificationFeedback>>]_vars

\* the handlers a user event invokes
UserEvents ==
    {"startAssessment", "handleCapture", "retakeContext", "retakeDetail",
     "triggerAnalysis", "startGuidance", "requestVerification", "retryCapture",
     "confirmProceed", "returnHome", "finishSession", "handleOverrideStart",
     "handleOverrideEnd"}

\* C23: "Deploy Instructions" in ANALYSIS_COMPLETE sets the phase to
\* PREPARING_INSTRUCTIONS; in that phase no handler of a user event runs; the
\* timeout callback sets the phase to GUIDANCE and currentStepIdx to 0 and,
\* when the plan has a step 0, requests the spoken prompt of step 0.
C23_PreparingThenGuidance ==
    [][/\ lastEvent' = "startGuidance"
          => (state = "ANALYSIS_COMPLETE" /\ state' = "PREPARING_INSTRUCTIONS")
       /\ state = "PREPARING_INSTRUCTIONS" => lastEvent' \notin UserEvents
       /\ lastEvent' = "guidanceTimeout"
          => /\ state' = "GUIDANCE" /\ currentStepIdx' = 0
             /\ StepExists(Head(timeouts), 0) => (spoken' = 0 /\ speaking')]_vars

\* C23 witness: "Deploy Instructions" was pressed in a session that follows
\* one which ended at step 1; the timeout is pending.
C23_Witness ==
    /\ lastEvent = "startGuidance"
    /\ state = "PREPARING_INSTRUCTIONS"
    /\ currentStepIdx = 1
    /\ Len(timeouts) = 1 /\ StepExists(Head(timeouts), 0)

\* C24: in INITIAL_CAPTURE with exactly one image stored, as a retake leaves
\* it, a capture that delivers an image stores it in the empty slot, leaves
\* the other image as it is and sets the phase to CAPTURE_COMPLETE.
C24_RetakeRefillsSlot ==
    [][(/\ lastEvent' = "handleCapture"
        /\ state = "INITIAL_CAPTURE"
        /\ Truthy(captured')
        /\ Truthy(wideImage) /= Truthy(macroImage))
       => /\ state' = "CAPTURE_COMPLETE"
          /\ Truthy(wideImage)
               => (wideImage' = wideImage /\ macroImage' = captured')
          /\ Truthy(macroImage)
               => (macroImage' = macroImage /\ wideImage' = captured')]_vars

\* C25: in INITIAL_CAPTURE with no image stored a capture stores the context
\* image and stays; with the context image stored a capture stores the
\* detail image and moves to CAPTURE_COMPLETE; in CAPTURE_COMPLETE and
\* ANALYZING both images are non-empty, and so are the two images of every
\* analysis request.
C25_BothImagesBeforeAnalysis ==
    [][/\ (lastEvent' = "handleCapture" /\ state = "INITIAL_CAPTURE")
          => IF ~Truthy(wideImage) /\ ~Truthy(macroImage)
             THEN wideImage' = captured' /\ state' = "INITIAL_CAPTURE"
             ELSE Truthy(wideImage)
                    => (macroImage' = captured' /\ state' = "CAPTURE_COMPLETE")
       /\ state' \in {"CAPTURE_COMPLETE", "ANALYZING"}
          => (Truthy(wideImage') /\ Truthy(macroImage'))
       /\ lastEvent' = "triggerAnalysis"
          => (Truthy(inflight'[Len(inflight')].wide)
              /\ Truthy(inflight'[Len(inflight')].macro))]_vars

C27_AdvanceByOneToCompleted ==
    [][/\ (/\ lastEvent' \in {"confirmProceed", "overrideComplete"}
           /\ state \in {"GUIDANCE", "STEP_VALIDATION"}
           /\ StepExists(analysis, currentStepIdx))
          => IF currentStepIdx < analysis.len - 1
             THEN currentStepIdx' = currentStepIdx + 1 /\ state' = "GUIDANCE"
             ELSE currentStepIdx' = currentStepIdx /\ state' = "COMPLETED"
       /\ lastEvent' /= "guidanceTimeout" => currentStepIdx' >= currentStepIdx]_vars

\* C28: whenever isBusy is true it is false again later, given that every
\* oracle call ends and its continuation runs; so the capture button is not
\* disabled forever.
C28_BusyEventuallyClears == isBusy ~> ~isBusy

\* C29: the feedback card shown in STEP_VALIDATION holds the result of a
\* verification that was requested for the current currentStepIdx.
C29_FeedbackForCurrentStep == OverlayShown => feedbackStep = currentStepIdx

\* C30: "Confirm & Proceed" runs only in STEP_VALIDATION on a stored feedback
\* whose success is true; a feedback whose success is false offers "Retry
\* Capture" only.
C30_ProceedOnlyOnSuccess ==
    [][lastEvent' = "confirmProceed"
         => /\ state = "STEP_VALIDATION"
            /\ verificationFeedback.present
            /\ verificationFeedback.success = "true"]_vars

\* C31: the phase is never ESCALATION and never VOICE_DESCRIPTION: no
\* handler, timer callback or continuation sets either.  (The severity of a
\* plan is only displayed, App.tsx:282, and is not part of the model's
\* plans; the ESCALATION view's own button, App.tsx:473, is therefore never
\* rendered.)
C31_EscalationUnreachable == state \notin {"ESCALATION", "VOICE_DESCRIPTION"}

\* C31 witness: user events, an analysis result, a verification result and
\* a completed override hold have taken a session to COMPLETED.
C31_Witness ==
    /\ lastEvent = "overrideComplete"
    /\ state = "COMPLETED"
    /\ analysis.present /\ verificationFeedback.present

\* C32: the installed plan changes only in the continuation of a successful
\* analysis, which installs the value analyzeSituation returned: no capture,
\* verification result, advance, retry, override or failed analysis changes
\* it.
C32_PlanImmutable ==
    [][analysis' /= analysis
         => /\ lastEvent' = "triggerAnalysisResume"
            /\ state' = "ANALYSIS_COMPLETE"
            /\ \E i \in 1..Len(inflight) :
                 /\ inflight[i].kind = "analysis"
                 /\ ~analyzeSituation(inflight[i].reply).threw
                 /\ analysis' = analyzeSituation(inflight[i].reply).value]_vars

\* C32 witness: on a two-step plan a verification result has been confirmed
\* and the session has advanced to step 1; the plan is the one installed.
C32_Witness ==
    /\ lastEvent = "confirmProceed"
    /\ state = "GUIDANCE" /\ currentStepIdx = 1
    /\ analysis \in Plans /\ analysis.len = 2

====
